---- MODULE Spec2Model ----
(***************************************************************************)
(* Markdown -> RAG records pipeline of src/data_preprocess:                *)
(*   parse_docs_RAG_complex.py  extract_title, split_to_sections,          *)
(*                              chunk_section_text,                        *)
(*                              process_fastapi_docs_to_jsonl              *)
(*   parse_docs_RAG_simple.py   extract_title, split_sections,             *)
(*                              build_rag_jsonl                            *)
(* A text is a sequence of one-character strings.  Every loop of the code  *)
(* is one action per iteration; the statements after a loop are one more   *)
(* action.  Four specifications share the variables: SpecChunk, SpecSplit, *)
(* SpecTitle and SpecBatch; the variables a specification does not use     *)
(* stay at their idle values.                                              *)
(***************************************************************************)
EXTENDS Integers, Sequences, FiniteSets, TLC

VARIABLES
    pc,               \* position of the running function
    variant,          \* "complex" or "simple": which file's function runs
    text,             \* the function's text argument
    lines,            \* text.splitlines(...) of the running function
    i,                \* index of the next element the for loop takes
    max_chars,        \* chunk_section_text: argument
    min_chars,        \* chunk_section_text: argument
    chunks,           \* chunk_section_text: local list
    buf,              \* chunk_section_text: local list
    cur_len,          \* chunk_section_text: local counter
    in_code,          \* chunk_section_text: local flag
    doc_title,        \* split_to_sections / split_sections: argument
    sections,         \* split_*: local list, the return value
    current_heading,  \* split_*: local
    current_lines,    \* split_*: local list
    started,          \* split_to_sections: local flag
    skip_first_title, \* split_sections: local flag
    fallback,         \* extract_title: argument
    title,            \* extract_title: return value
    md_files,         \* driver: the files rglob yields, in its order
    idx,              \* driver: next record number
    out_f             \* driver: lines written to the output file

vars == <<pc, variant, text, lines, i, max_chars, min_chars, chunks, buf,
          cur_len, in_code, doc_title, sections, current_heading,
          current_lines, started, skip_first_title, fallback, title,
          md_files, idx, out_f>>

-----------------------------------------------------------------------------
(* Bounds of the model *)

\* most lines of a text handed to chunk_section_text
MaxLines == 4
\* most lines of a text handed to the section splitters and extract_title
MaxDocLines == 4
\* largest small max_chars tried
MaxThreshold == 4
\* largest small min_chars tried
MaxMinChars == 2
\* most files the driver finds
MaxDocs == 3

(* Program constants *)
MAX_CHARS == 2000
MIN_CHARS == 300

-----------------------------------------------------------------------------
(* Python string primitives, on sequences of characters *)

NL == "\n"

\* str.strip() and \s: the whitespace of the modelled alphabet
IsSpace(c) == c \in {" ", "\n", "\t"}

\* a set of naturals' least element
MinOf(S) == CHOOSE x \in S : \A y \in S : x <= y

MaxOf(S) == CHOOSE x \in S : \A y \in S : y <= x

\* str.strip()
Strip(s) ==
    LET ns == {k \in 1..Len(s) : ~IsSpace(s[k])}
    IN  IF ns = {} THEN <<>> ELSE SubSeq(s, MinOf(ns), MaxOf(ns))

\* str.startswith(p)
StartsWith(s, p) == Len(s) >= Len(p) /\ SubSeq(s, 1, Len(p)) = p

\* "".join(parts)
RECURSIVE Concat(_)
Concat(parts) ==
    IF parts = <<>> THEN <<>> ELSE Head(parts) \o Concat(Tail(parts))

\* "\n".join(parts)
RECURSIVE JoinNL(_)
JoinNL(parts) ==
    IF parts = <<>> THEN <<>>
    ELSE IF Len(parts) = 1 THEN parts[1]
    ELSE parts[1] \o <<NL>> \o JoinNL(Tail(parts))

\* str.splitlines(keepends): a final line terminator opens no empty last line
RECURSIVE SplitLines(_, _)
SplitLines(s, keepends) ==
    IF s = <<>> THEN <<>>
    ELSE LET nls == {k \in 1..Len(s) : s[k] = NL}
         IN  IF nls = {} THEN <<s>>
             ELSE LET k == MinOf(nls)
                  IN  <<SubSeq(s, 1, IF keepends THEN k ELSE k - 1)>>
                      \o SplitLines(SubSeq(s, k + 1, Len(s)), keepends)

\* the text after a prefix of n characters and the whitespace run that follows
\* it: the (.*) group of  ^<prefix>\s+(.*)
AfterSpaces(line, n) ==
    LET ns == {k \in (n + 1)..Len(line) : ~IsSpace(line[k])}
    IN  IF ns = {} THEN <<>> ELSE SubSeq(line, MinOf(ns), Len(line))

\* re.match(r"^#\s+", line)
MatchH1(line) == Len(line) >= 2 /\ line[1] = "#" /\ IsSpace(line[2])

\* the number of '#' the group (#{2,3}) takes in re.match(r"^(#{2,3})\s+(.*)", line);
\* 0 when the line does not match
SubHeadingHashes(line) ==
    IF Len(line) >= 4 /\ SubSeq(line, 1, 3) = <<"#", "#", "#">> /\ IsSpace(line[4])
    THEN 3
    ELSE IF Len(line) >= 3 /\ SubSeq(line, 1, 2) = <<"#", "#">> /\ IsSpace(line[3])
    THEN 2
    ELSE 0

\* re.match(r"^(#{2,3})\s+(.*)", line)
MatchSubHeading(line) == SubHeadingHashes(line) > 0

\* all sequences over S of length 0..n
SeqsUpTo(S, n) == UNION {[1..k -> S] : k \in 0..n}

-----------------------------------------------------------------------------
(* Idle values of the variables a specification does not use *)

ChunkIdle ==
    /\ max_chars = 0 /\ min_chars = 0 /\ chunks = <<>> /\ buf = <<>>
    /\ cur_len = 0 /\ in_code = FALSE

SplitIdle ==
    /\ doc_title = <<>> /\ sections = <<>> /\ current_heading = <<>>
    /\ current_lines = <<>> /\ started = FALSE /\ skip_first_title = FALSE

TitleIdle == fallback = <<>> /\ title = <<>>

BatchIdle == md_files = <<>> /\ idx = 0 /\ out_f = <<>>

chunkVars == <<max_chars, min_chars, chunks, buf, cur_len, in_code>>

splitVars == <<doc_title, sections, current_heading, current_lines, started,
               skip_first_title>>

titleVars == <<fallback, title>>

batchVars == <<md_files, idx, out_f>>

-----------------------------------------------------------------------------
(* chunk_section_text  (parse_docs_RAG_complex.py) *)

\* the backquote character (the module's lexer takes no backquote in a string)
BQ == "bq"

\* the triple-backquote marker
FENCE == <<BQ, BQ, BQ>>

\* line.strip().startswith(FENCE)
IsFenceLine(line) == StartsWith(Strip(line), FENCE)

\* if line.strip().startswith(FENCE): in_code = not in_code
ToggleFence(code, line) == IF IsFenceLine(line) THEN ~code ELSE code

\* CutNow without its fence test: a cut decided on the lengths alone
CutNowIgnoringFence(len, line, code, maxc, minc) ==
    len + Len(line) > maxc /\ len >= minc

\* the condition of the cut, evaluated after the toggle
CutNow(len, line, code, maxc, minc) ==
    len + Len(line) > maxc /\ ~code /\ len >= minc

\* ChunkLine with the appending of the line skipped on a cut
ChunkLineLosingCutLine(st, line, maxc, minc) ==
    LET code == ToggleFence(st.in_code, line)
        cut  == CutNow(st.cur_len, line, code, maxc, minc)
    IN  [chunks  |-> IF cut THEN Append(st.chunks, Strip(Concat(st.buf)))
                            ELSE st.chunks,
         buf     |-> IF cut THEN <<>> ELSE Append(st.buf, line),
         cur_len |-> IF cut THEN 0 ELSE st.cur_len + Len(line),
         in_code |-> code]

\* one iteration of  for line in lines  on the locals st
ChunkLine(st, line, maxc, minc) ==
    LET code == ToggleFence(st.in_code, line)
        cut  == CutNow(st.cur_len, line, code, maxc, minc)
    IN  [chunks  |-> IF cut THEN Append(st.chunks, Strip(Concat(st.buf)))
                            ELSE st.chunks,
         buf     |-> Append(IF cut THEN <<>> ELSE st.buf, line),
         cur_len |-> (IF cut THEN 0 ELSE st.cur_len) + Len(line),
         in_code |-> code]

\* after the loop:  if buf: chunk = "".join(buf).strip(); if chunk: append
FlushLast(cs, b) ==
    IF b # <<>> /\ Strip(Concat(b)) # <<>> THEN Append(cs, Strip(Concat(b)))
    ELSE cs

ChunkStart == [chunks |-> <<>>, buf |-> <<>>, cur_len |-> 0, in_code |-> FALSE]

RECURSIVE ChunkLoop(_, _, _, _)
ChunkLoop(st, ls, maxc, minc) ==
    IF ls = <<>> THEN st
    ELSE ChunkLoop(ChunkLine(st, Head(ls), maxc, minc), Tail(ls), maxc, minc)

\* the whole function, as the driver calls it
ChunkSectionText(t, maxc, minc) ==
    LET st == ChunkLoop(ChunkStart, SplitLines(t, TRUE), maxc, minc)
    IN  FlushLast(st.chunks, st.buf)

\* the lines the chunked texts are made of
ChunkLineChoices ==
    { <<"a">>, <<>>, FENCE, <<" ", "b", " ">>, <<" ">> \o FENCE }

ChunkTexts == {JoinNL(ls) : ls \in SeqsUpTo(ChunkLineChoices, MaxLines)}

\* the (max_chars, min_chars) pairs tried: small ones and the defaults
Thresholds ==
    ((1..MaxThreshold) \X (0..MaxMinChars)) \cup {<<MAX_CHARS, MIN_CHARS>>}

InitChunk ==
    /\ pc = "chunk_scan"
    /\ variant = "complex"
    /\ text \in ChunkTexts
    /\ lines = SplitLines(text, TRUE)
    /\ i = 1
    /\ \E th \in Thresholds : max_chars = th[1] /\ min_chars = th[2]
    /\ chunks = <<>> /\ buf = <<>> /\ cur_len = 0 /\ in_code = FALSE
    /\ SplitIdle /\ TitleIdle /\ BatchIdle

ChunkScanLine ==
    /\ pc = "chunk_scan"
    /\ i <= Len(lines)
    /\ LET st == ChunkLine([chunks |-> chunks, buf |-> buf,
                            cur_len |-> cur_len, in_code |-> in_code],
                           lines[i], max_chars, min_chars)
       IN  /\ chunks' = st.chunks
           /\ buf' = st.buf
           /\ cur_len' = st.cur_len
           /\ in_code' = st.in_code
    /\ i' = i + 1
    /\ UNCHANGED <<pc, variant, text, lines, max_chars, min_chars>>
    /\ UNCHANGED <<splitVars, titleVars, batchVars>>

ChunkReturn ==
    /\ pc = "chunk_scan"
    /\ i > Len(lines)
    /\ chunks' = FlushLast(chunks, buf)
    /\ pc' = "chunk_done"
    /\ UNCHANGED <<variant, text, lines, i, max_chars, min_chars, buf,
                   cur_len, in_code>>
    /\ UNCHANGED <<splitVars, titleVars, batchVars>>

NextChunk == ChunkScanLine \/ ChunkReturn

SpecChunk == InitChunk /\ [][NextChunk]_vars

-----------------------------------------------------------------------------
(* Properties of chunk_section_text *)

\* p occurs in s as a contiguous run of characters
IsInfix(p, s) ==
    \E k \in 0..(Len(s) - Len(p)) : SubSeq(s, k + 1, k + Len(p)) = p

\* s ends with p
EndsWith(s, p) ==
    Len(s) >= Len(p) /\ SubSeq(s, Len(s) - Len(p) + 1, Len(s)) = p

\* indices of the triple-backquote-prefixed lines among ls[1..n]
FenceIdx(ls, n) == {k \in 1..n : IsFenceLine(ls[k])}

\* an odd number of fence lines among ls[1..n]
OddFences(ls, n) == Cardinality(FenceIdx(ls, n)) % 2 = 1

\* the fenced blocks of ls: <<o, c>> with ls[o] an opening fence line (an odd
\* one) and ls[c] the fence line that closes it
FencedBlocks(ls) ==
    {<<o, c>> \in FenceIdx(ls, Len(ls)) \X FenceIdx(ls, Len(ls)) :
        /\ OddFences(ls, o)
        /\ o < c
        /\ \A m \in (o + 1)..(c - 1) : ~IsFenceLine(ls[m])}

\* s is the chunks cs in order, each preceded by whitespace only, with
\* whitespace only after the last
RECURSIVE Reconstructs(_, _)
Reconstructs(s, cs) ==
    IF cs = <<>> THEN Strip(s) = <<>>
    ELSE IF Head(cs) = <<>> THEN Reconstructs(s, Tail(cs))
    ELSE LET ns == {k \in 1..Len(s) : ~IsSpace(s[k])}
         IN  /\ ns # {}
             /\ StartsWith(SubSeq(s, MinOf(ns), Len(s)), Head(cs))
             /\ Reconstructs(SubSeq(s, MinOf(ns) + Len(Head(cs)), Len(s)),
                             Tail(cs))

\* the non-blank lines of a text, each trimmed, in order
NonBlankLines(s) ==
    SelectSeq([k \in 1..Len(SplitLines(s, FALSE)) |->
                  Strip(SplitLines(s, FALSE)[k])],
              LAMBDA l : l # <<>>)

\* the non-blank lines of the chunks cs, chunk after chunk
RECURSIVE ChunkNonBlankLines(_)
ChunkNonBlankLines(cs) ==
    IF cs = <<>> THEN <<>>
    ELSE NonBlankLines(Head(cs)) \o ChunkNonBlankLines(Tail(cs))

\* C1: when chunk_section_text has returned, every fenced block of the content
\* (opening fence line, body lines, closing fence line) lies whole in one chunk.
C1_BlockInOneChunk ==
    pc = "chunk_done" =>
        \A b \in FencedBlocks(lines) :
            \E k \in 1..Len(chunks) :
                IsInfix(Strip(Concat(SubSeq(lines, b[1], b[2]))), chunks[k])

\* C2: when chunk_section_text has returned, the content is the chunks in
\* order with only whitespace between them and at the two ends, and the
\* non-blank lines of the chunks are the non-blank lines of the content, each
\* once and in order.
C2_ContentPreserved ==
    pc = "chunk_done" =>
        /\ Reconstructs(text, chunks)
        /\ ChunkNonBlankLines(chunks) = NonBlankLines(text)

\* C2 witness: a run that cut at least once, on a content with a blank line
\* and a line with whitespace around its text
C2_Witness ==
    /\ pc = "chunk_done"
    /\ Len(chunks) >= 2
    /\ \A k \in 1..Len(chunks) : chunks[k] # <<>>
    /\ \E k \in 1..Len(lines) : Strip(lines[k]) = <<>>
    /\ Concat(chunks) # text
    /\ Len(NonBlankLines(text)) >= 2

\* C3: every element of the list chunk_section_text builds is a non-empty,
\* trimmed string.
C3_ChunksNonEmptyTrimmed ==
    \A k \in 1..Len(chunks) : chunks[k] # <<>> /\ Strip(chunks[k]) = chunks[k]

\* C9: (a) while the fence lines scanned so far, the line being processed
\* included, are odd in number, processing the line makes no cut; (b) when the
\* content has an odd number of fence lines, the lines from the last fence line
\* to the end close the last chunk returned.
C9_NoCutInStep ==
    (pc = "chunk_scan" /\ i <= Len(lines) /\ OddFences(lines, i))
        => chunks' = chunks

C9_TailInOneChunk ==
    (pc = "chunk_done" /\ OddFences(lines, Len(lines))) =>
        /\ chunks # <<>>
        /\ EndsWith(chunks[Len(chunks)],
                    Strip(Concat(SubSeq(lines,
                                        MaxOf(FenceIdx(lines, Len(lines))),
                                        Len(lines)))))

\* C9: code fences toggle: no step cuts while the fence lines scanned are odd
\* in number, and an unclosed fence keeps the rest of the content in one chunk.
C9_ToggleSuppressesCuts == [][C9_NoCutInStep]_vars /\ []C9_TailInOneChunk

\* C9 witness: an unclosed fence followed by lines that pass max_chars with
\* min_chars already held, returned as one chunk
C9_Witness ==
    /\ pc = "chunk_done"
    /\ OddFences(lines, Len(lines))
    /\ LET f == MaxOf(FenceIdx(lines, Len(lines)))
       IN  /\ f + 2 <= Len(lines)
           /\ Len(lines[f]) >= min_chars
           /\ Len(Concat(SubSeq(lines, f, Len(lines)))) > max_chars
           /\ Len(chunks[Len(chunks)]) > max_chars

-----------------------------------------------------------------------------
(* split_to_sections (parse_docs_RAG_complex.py) and split_sections         *)
(* (parse_docs_RAG_simple.py)                                               *)

\* sections.append({"heading": current_heading,
\*                  "content": "\n".join(current_lines).strip()})
SectionOf(heading, cl) == [heading |-> heading, content |-> Strip(JoinNL(cl))]

\* heading_match.group(2).strip()
HeadingText(line) == Strip(AfterSpaces(line, SubHeadingHashes(line)))

\* split_to_sections: the loop body once the title line has been passed
SectionLine(st, line) ==
    IF MatchSubHeading(line)
    THEN [st EXCEPT
            !.sections = IF st.current_lines # <<>>
                         THEN Append(st.sections,
                                     SectionOf(st.current_heading,
                                               st.current_lines))
                         ELSE st.sections,
            !.current_lines = <<>>,
            !.current_heading = HeadingText(line)]
    ELSE [st EXCEPT !.current_lines = Append(st.current_lines, line)]

\* split_to_sections: one iteration of  for line in lines
SplitToSectionsLine(st, line) ==
    IF ~st.started
    THEN [st EXCEPT !.started = MatchH1(line)]
    ELSE SectionLine(st, line)

\* both splitters, after the loop:  if current_lines: sections.append(...)
LastSection(st) ==
    IF st.current_lines # <<>>
    THEN Append(st.sections, SectionOf(st.current_heading, st.current_lines))
    ELSE st.sections

\* WithFallback without the fallback section
WithoutFallback(secs, dt, t) == secs

\* split_to_sections:  if not sections: append {heading: doc_title, content: text}
WithFallback(secs, dt, t) ==
    IF secs = <<>> THEN <<[heading |-> dt, content |-> t]>> ELSE secs

\* split_sections: the loop body for a line that is not the skipped title
SimpleSectionLine(st, line) ==
    IF MatchSubHeading(line)
    THEN [st EXCEPT
            !.sections = IF st.current_lines # <<>>
                         THEN Append(st.sections,
                                     SectionOf(st.current_heading,
                                               st.current_lines))
                         ELSE st.sections,
            !.current_lines = <<>>,
            !.current_heading = HeadingText(line)]
    ELSE [st EXCEPT !.current_lines = Append(st.current_lines, line)]

\* split_sections: one iteration of  for line in lines
SplitSectionsLine(st, line) ==
    IF st.skip_first_title /\ MatchH1(line)
    THEN [st EXCEPT !.skip_first_title = FALSE]
    ELSE SimpleSectionLine(st, line)

\* the locals of either splitter on entry
SplitStart(dt) ==
    [sections |-> <<>>, current_heading |-> dt, current_lines |-> <<>>,
     started |-> FALSE, skip_first_title |-> TRUE]

RECURSIVE SplitToSectionsLoop(_, _)
SplitToSectionsLoop(st, ls) ==
    IF ls = <<>> THEN st
    ELSE SplitToSectionsLoop(SplitToSectionsLine(st, Head(ls)), Tail(ls))

\* split_to_sections(text, doc_title), whole
SplitToSections(t, dt) ==
    WithFallback(LastSection(SplitToSectionsLoop(SplitStart(dt),
                                                 SplitLines(t, FALSE))),
                 dt, t)

RECURSIVE SplitSectionsLoop(_, _)
SplitSectionsLoop(st, ls) ==
    IF ls = <<>> THEN st
    ELSE SplitSectionsLoop(SplitSectionsLine(st, Head(ls)), Tail(ls))

\* split_sections(text, doc_title), whole
SplitSections(t, dt) ==
    LastSection(SplitSectionsLoop(SplitStart(dt), SplitLines(t, FALSE)))

\* the lines the documents are made of:
\* "# T", "## A", "### B", "#### C", "x" and the blank line
DocLineChoices ==
    { <<"#", " ", "T">>, <<"#", "#", " ", "A">>, <<"#", "#", "#", " ", "B">>,
      <<"#", "#", "#", "#", " ", "C">>, <<"x">>, <<>> }

DocTexts == {JoinNL(ls) : ls \in SeqsUpTo(DocLineChoices, MaxDocLines)}

DocTitleChoices == { <<"T">>, <<"d", "o", "c">> }

SplitLocals ==
    [sections |-> sections, current_heading |-> current_heading,
     current_lines |-> current_lines, started |-> started,
     skip_first_title |-> skip_first_title]

InitSplit ==
    /\ pc = "split_scan"
    /\ variant \in {"complex", "simple"}
    /\ text \in DocTexts
    /\ lines = SplitLines(text, FALSE)
    /\ i = 1
    /\ doc_title \in DocTitleChoices
    /\ sections = <<>>
    /\ current_heading = doc_title
    /\ current_lines = <<>>
    /\ started = FALSE
    /\ skip_first_title = (variant = "simple")
    /\ ChunkIdle /\ TitleIdle /\ BatchIdle

SetSplitLocals(st) ==
    /\ sections' = st.sections
    /\ current_heading' = st.current_heading
    /\ current_lines' = st.current_lines
    /\ started' = st.started
    /\ skip_first_title' = st.skip_first_title

SplitToSectionsScan ==
    /\ pc = "split_scan" /\ variant = "complex"
    /\ i <= Len(lines)
    /\ SetSplitLocals(SplitToSectionsLine(SplitLocals, lines[i]))
    /\ i' = i + 1
    /\ UNCHANGED <<pc, variant, text, lines, doc_title>>
    /\ UNCHANGED <<chunkVars, titleVars, batchVars>>

SplitToSectionsReturn ==
    /\ pc = "split_scan" /\ variant = "complex"
    /\ i > Len(lines)
    /\ sections' = WithFallback(LastSection(SplitLocals), doc_title, text)
    /\ pc' = "split_done"
    /\ UNCHANGED <<variant, text, lines, i, doc_title, current_heading,
                   current_lines, started, skip_first_title>>
    /\ UNCHANGED <<chunkVars, titleVars, batchVars>>

SplitSectionsScan ==
    /\ pc = "split_scan" /\ variant = "simple"
    /\ i <= Len(lines)
    /\ SetSplitLocals(SplitSectionsLine(SplitLocals, lines[i]))
    /\ i' = i + 1
    /\ UNCHANGED <<pc, variant, text, lines, doc_title>>
    /\ UNCHANGED <<chunkVars, titleVars, batchVars>>

SplitSectionsReturn ==
    /\ pc = "split_scan" /\ variant = "simple"
    /\ i > Len(lines)
    /\ sections' = LastSection(SplitLocals)
    /\ pc' = "split_done"
    /\ UNCHANGED <<variant, text, lines, i, doc_title, current_heading,
                   current_lines, started, skip_first_title>>
    /\ UNCHANGED <<chunkVars, titleVars, batchVars>>

NextSplit ==
    \/ SplitToSectionsScan
    \/ SplitToSectionsReturn
    \/ SplitSectionsScan
    \/ SplitSectionsReturn

SpecSplit == InitSplit /\ [][NextSplit]_vars

-----------------------------------------------------------------------------
(* Properties of the section splitters *)

\* indices of the lines of ls that re.match(r"^#\s+", line) accepts
H1Idx(ls) == {k \in 1..Len(ls) : MatchH1(ls[k])}

\* index of the document's title line: the first level-1 heading line, 0 if none
TitleLineIdx(ls) == IF H1Idx(ls) = {} THEN 0 ELSE MinOf(H1Idx(ls))

\* the lines of ls from index k on that section splitting has to keep, each
\* trimmed: the non-blank ones other than the title line and the ##/###
\* boundary lines
RECURSIVE KeptLinesFrom(_, _)
KeptLinesFrom(ls, k) ==
    IF k > Len(ls) THEN <<>>
    ELSE (IF \/ k = TitleLineIdx(ls)
             \/ MatchSubHeading(ls[k])
             \/ Strip(ls[k]) = <<>>
          THEN <<>> ELSE <<Strip(ls[k])>>)
         \o KeptLinesFrom(ls, k + 1)

\* the non-blank lines of the sections' contents, section after section
RECURSIVE SectionNonBlankLines(_)
SectionNonBlankLines(secs) ==
    IF secs = <<>> THEN <<>>
    ELSE NonBlankLines(Head(secs).content) \o SectionNonBlankLines(Tail(secs))

\* the trimmed heading texts of the ##/### lines of ls, in order
SubHeadingTexts(ls) ==
    LET hs == SelectSeq(ls, MatchSubHeading)
    IN  [k \in 1..Len(hs) |-> HeadingText(hs[k])]

\* no level-1 heading line, and the document is k >= 1 sub-heading lines, each
\* followed by body text up to the next one
HeadedBodiesOnly(ls) ==
    /\ H1Idx(ls) = {}
    /\ ls # <<>>
    /\ MatchSubHeading(ls[1])
    /\ \A k \in 1..Len(ls) :
          MatchSubHeading(ls[k]) =>
              /\ k < Len(ls)
              /\ ~MatchSubHeading(ls[k + 1])
              /\ Strip(ls[k + 1]) # <<>>

\* a is b with some elements left out
RECURSIVE IsSubsequence(_, _)
IsSubsequence(a, b) ==
    IF a = <<>> THEN TRUE
    ELSE IF b = <<>> THEN FALSE
    ELSE IF Head(a) = Head(b) THEN IsSubsequence(Tail(a), Tail(b))
    ELSE IsSubsequence(a, Tail(b))

\* C4: when either splitter has returned, the non-blank lines of the document
\* other than the title line and the ##/### lines all occur, in reading order,
\* among the lines of the returned sections' contents.
C4_NoContentDropped ==
    pc = "split_done" =>
        IsSubsequence(KeptLinesFrom(lines, 1), SectionNonBlankLines(sections))

\* C5: split_to_sections returns a document without level-1 heading line made
\* of k >= 1 sub-headings, each followed by body text, as k sections carrying
\* those headings in order.
C5_NoTitleNoSkip ==
    (pc = "split_done" /\ variant = "complex" /\ HeadedBodiesOnly(lines)) =>
        [k \in 1..Len(sections) |-> sections[k].heading] = SubHeadingTexts(lines)

\* C6: for a text without ## or ### heading line, split_to_sections returns
\* exactly one section, and its heading is doc_title.
C6_OneSectionNamedTitle ==
    (/\ pc = "split_done"
     /\ variant = "complex"
     /\ \A k \in 1..Len(lines) : ~MatchSubHeading(lines[k])) =>
        Len(sections) = 1 /\ sections[1].heading = doc_title

\* C6 witness: split_to_sections has returned on a text with a title line and
\* body lines after it, no ##/### line, and a doc_title other than its title
C6_Witness ==
    /\ pc = "split_done"
    /\ variant = "complex"
    /\ \A k \in 1..Len(lines) : ~MatchSubHeading(lines[k])
    /\ TitleLineIdx(lines) # 0
    /\ TitleLineIdx(lines) < Len(lines)
    /\ doc_title # <<"T">>
    /\ Len(sections) = 1
    /\ sections[1].content # text
    /\ sections[1].content # <<>>

\* C7: when split_to_sections has returned on a document with a level-1
\* heading line, the first such line (the only line of the document with that
\* text) is no line of any returned section's content.
C7_TitleLineConsumed ==
    (/\ pc = "split_done"
     /\ variant = "complex"
     /\ TitleLineIdx(lines) # 0
     /\ Cardinality({k \in 1..Len(lines) :
                        lines[k] = lines[TitleLineIdx(lines)]}) = 1) =>
        \A n \in 1..Len(sections) :
            \A m \in 1..Len(SplitLines(sections[n].content, FALSE)) :
                SplitLines(sections[n].content, FALSE)[m]
                    # lines[TitleLineIdx(lines)]

-----------------------------------------------------------------------------
(* extract_title of both files *)

\* m.group(1).strip() of  m = re.match(r"^#\s+(.*)", s)
TitleText(s) == Strip(AfterSpaces(s, 1))

\* parse_docs_RAG_complex.py: the pattern is matched on line.strip()
ComplexTitleMatch(line) == MatchH1(Strip(line))

ComplexTitleOf(line) == TitleText(Strip(line))

\* parse_docs_RAG_simple.py: the pattern is matched on the line as it is
SimpleTitleMatch(line) == MatchH1(line)

SimpleTitleOf(line) == TitleText(line)

RECURSIVE ExtractTitleComplex(_, _)
ExtractTitleComplex(ls, fb) ==
    IF ls = <<>> THEN fb
    ELSE IF ComplexTitleMatch(Head(ls)) THEN ComplexTitleOf(Head(ls))
    ELSE ExtractTitleComplex(Tail(ls), fb)

RECURSIVE ExtractTitleSimple(_, _)
ExtractTitleSimple(ls, fb) ==
    IF ls = <<>> THEN fb
    ELSE IF SimpleTitleMatch(Head(ls)) THEN SimpleTitleOf(Head(ls))
    ELSE ExtractTitleSimple(Tail(ls), fb)

\* the lines the titled texts are made of:
\* "# T", "#  " (a '#' and whitespace only), "#", "x" and the blank line
TitleLineChoices ==
    { <<"#", " ", "T">>, <<"#", " ", " ">>, <<"#">>, <<"x">>, <<>> }

TitleTexts == {JoinNL(ls) : ls \in SeqsUpTo(TitleLineChoices, MaxDocLines)}

\* non-empty fallback names (the file's stem)
FallbackChoices == { <<"d", "o", "c">>, <<"f">> }

InitTitle ==
    /\ pc = "title_scan"
    /\ variant \in {"complex", "simple"}
    /\ text \in TitleTexts
    /\ lines = SplitLines(text, FALSE)
    /\ i = 1
    /\ fallback \in FallbackChoices
    /\ title = <<>>
    /\ ChunkIdle /\ SplitIdle /\ BatchIdle

\* one iteration of the complex extract_title's loop
TitleScanComplex ==
    /\ pc = "title_scan" /\ variant = "complex"
    /\ i <= Len(lines)
    /\ IF ComplexTitleMatch(lines[i])
       THEN title' = ComplexTitleOf(lines[i]) /\ pc' = "title_done" /\ i' = i
       ELSE i' = i + 1 /\ UNCHANGED <<title, pc>>
    /\ UNCHANGED <<variant, text, lines, fallback>>
    /\ UNCHANGED <<chunkVars, splitVars, batchVars>>

\* one iteration of the simple extract_title's loop
TitleScanSimple ==
    /\ pc = "title_scan" /\ variant = "simple"
    /\ i <= Len(lines)
    /\ IF SimpleTitleMatch(lines[i])
       THEN title' = SimpleTitleOf(lines[i]) /\ pc' = "title_done" /\ i' = i
       ELSE i' = i + 1 /\ UNCHANGED <<title, pc>>
    /\ UNCHANGED <<variant, text, lines, fallback>>
    /\ UNCHANGED <<chunkVars, splitVars, batchVars>>

\* return fallback, of both
TitleReturnFallback ==
    /\ pc = "title_scan"
    /\ i > Len(lines)
    /\ title' = fallback
    /\ pc' = "title_done"
    /\ UNCHANGED <<variant, text, lines, i, fallback>>
    /\ UNCHANGED <<chunkVars, splitVars, batchVars>>

NextTitle == TitleScanComplex \/ TitleScanSimple \/ TitleReturnFallback

SpecTitle == InitTitle /\ [][NextTitle]_vars

\* C8: when extract_title (of either file) has returned on a non-empty
\* fallback, the title is not empty, and it is the fallback exactly when no
\* line of the text is a level-1 heading line.
C8_TitleNeverEmpty ==
    pc = "title_done" =>
        /\ title # <<>>
        /\ (title = fallback) <=> (H1Idx(lines) = {})

-----------------------------------------------------------------------------
(* The batch drivers: process_fastapi_docs_to_jsonl (complex) and            *)
(* build_rag_jsonl (simple).  A file is its stem, whether its bytes decode   *)
(* as UTF-8, and the text they decode to.                                    *)

\* the records of the chunks cs of one section, unnumbered
ChunkRecords(cs, ttl, heading, stem) ==
    [k \in 1..Len(cs) |->
        [title |-> ttl, section |-> heading, content |-> cs[k], source |-> stem]]

\* process_fastapi_docs_to_jsonl: for sec in sections: for chunk in chunks
RECURSIVE ComplexSectionRecords(_, _, _)
ComplexSectionRecords(secs, ttl, stem) ==
    IF secs = <<>> THEN <<>>
    ELSE ChunkRecords(ChunkSectionText(Head(secs).content, MAX_CHARS, MIN_CHARS),
                      ttl, Head(secs).heading, stem)
         \o ComplexSectionRecords(Tail(secs), ttl, stem)

\* build_rag_jsonl: for sec in sections, one record per section
SimpleSectionRecords(secs, ttl, stem) ==
    [k \in 1..Len(secs) |->
        [title |-> ttl, section |-> secs[k].heading,
         content |-> secs[k].content, source |-> stem]]

\* the records one decoded file adds, unnumbered
FileRecords(v, f) ==
    IF v = "complex"
    THEN LET ttl == ExtractTitleComplex(SplitLines(f.text, FALSE), f.stem)
         IN  ComplexSectionRecords(SplitToSections(f.text, ttl), ttl, f.stem)
    ELSE LET ttl == ExtractTitleSimple(SplitLines(f.text, FALSE), f.stem)
         IN  SimpleSectionRecords(SplitSections(f.text, ttl), ttl, f.stem)

\* doc_id = f"{prefix}_{idx:04d}"; idx += 1, for each record
Numbered(recs, n) ==
    [k \in 1..Len(recs) |->
        [doc_id |-> n + k - 1, title |-> recs[k].title,
         section |-> recs[k].section, content |-> recs[k].content,
         source |-> recs[k].source]]

\* md_path.read_text(encoding="utf-8") raises UnicodeDecodeError on bytes that
\* are not UTF-8; neither driver catches it
ReadTextRaises(f) == ~f.decodable

\* the files a docs_root may hold
FileChoices ==
    { [stem |-> <<"a">>, decodable |-> TRUE,
       text |-> <<"#", " ", "T", "\n", "#", "#", " ", "A", "\n", "x">>],
      [stem |-> <<"b">>, decodable |-> TRUE, text |-> <<"x", "\n", "x">>],
      [stem |-> <<"c">>, decodable |-> FALSE, text |-> <<>>],
      [stem |-> <<"d">>, decodable |-> TRUE, text |-> <<>>] }

\* rglob yields each file once, in an order of its own
FileLists ==
    {fs \in SeqsUpTo(FileChoices, MaxDocs) :
        \A a, b \in 1..Len(fs) : a # b => fs[a] # fs[b]}

InitBatch ==
    /\ pc = "batch_loop"
    /\ variant \in {"complex", "simple"}
    /\ md_files \in FileLists
    /\ i = 1
    /\ idx = 1
    /\ out_f = <<>>
    /\ text = <<>> /\ lines = <<>>
    /\ ChunkIdle /\ SplitIdle /\ TitleIdle

\* one iteration of  for md_path in ...rglob("*.md")  of either driver, whose
\* read_text succeeds
ProcessFile ==
    /\ pc = "batch_loop"
    /\ i <= Len(md_files)
    /\ ~ReadTextRaises(md_files[i])
    /\ LET recs == FileRecords(variant, md_files[i])
       IN  /\ out_f' = out_f \o Numbered(recs, idx)
           /\ idx' = idx + Len(recs)
    /\ i' = i + 1
    /\ UNCHANGED <<pc, variant, text, lines, md_files>>
    /\ UNCHANGED <<chunkVars, splitVars, titleVars>>

\* the iteration whose read_text raises: the exception leaves the with block
\* (which closes the file, keeping what was written) and the function
ProcessFileRaises ==
    /\ pc = "batch_loop"
    /\ i <= Len(md_files)
    /\ ReadTextRaises(md_files[i])
    /\ pc' = "batch_raised"
    /\ UNCHANGED <<variant, text, lines, i, md_files, idx, out_f>>
    /\ UNCHANGED <<chunkVars, splitVars, titleVars>>

\* the loop ends, the file is closed, the function returns
BatchReturn ==
    /\ pc = "batch_loop"
    /\ i > Len(md_files)
    /\ pc' = "batch_done"
    /\ UNCHANGED <<variant, text, lines, i, md_files, idx, out_f>>
    /\ UNCHANGED <<chunkVars, splitVars, titleVars>>

NextBatch == ProcessFile \/ ProcessFileRaises \/ BatchReturn

SpecBatch == InitBatch /\ [][NextBatch]_vars

\* the records of the files fs, numbered from n on
RECURSIVE RecordsOfAll(_, _, _)
RecordsOfAll(v, fs, n) ==
    IF fs = <<>> THEN <<>>
    ELSE Numbered(FileRecords(v, Head(fs)), n)
         \o RecordsOfAll(v, Tail(fs), n + Len(FileRecords(v, Head(fs))))

\* C10: when a driver has stopped, the output holds the records of every file
\* that decodes, those after a file that does not decode included, in the
\* files' order.
C10_DecodeFailureSkipsOneFile ==
    pc \in {"batch_done", "batch_raised"} =>
        out_f = RecordsOfAll(variant,
                             SelectSeq(md_files, LAMBDA f : f.decodable), 1)

====
